---- MODULE Spec2Model ----
(***************************************************************************)
(* Model of the drive-clone backend (src/frontend/src/main.tsx, lines      *)
(* 678-923): the files table (better-sqlite3), the S3 bucket, and the      *)
(* Express handlers that couple them.  Handlers run on one Node.js event   *)
(* loop: the synchronous part of a handler is one atomic step, and every   *)
(* await / .then boundary is a point where other requests interleave.      *)
(* The bucket may fail any put or delete; the database is taken to fail    *)
(* only in insertFile.run and deleteFile.run, the two statements that are  *)
(* paired with a bucket operation.  The page that shows the files (the     *)
(* React component App, lines 112-297) is modelled by its state ui and its *)
(* filter filteredFiles.                                                   *)
(*                                                                         *)
(* Specifications: Spec (the handlers, concurrently), SpecList (GET        *)
(* /api/files on stored tables), SpecView (the page), SpecDrive (requests  *)
(* one at a time, closed by a List), SpecUpload (upload requests of every  *)
(* kind, one at a time).                                                   *)
(***************************************************************************)
EXTENDS Integers, Sequences, FiniteSets, TLC

VARIABLES
  files,     \* the files table: rowid -> row
  seq,       \* sqlite_sequence of the AUTOINCREMENT column: largest rowid ever used
  blobs,     \* the S3 bucket: key -> body
  now,       \* Date.now(), in milliseconds
  inflight,  \* requests suspended on S3 (or on the signer), one per slot
  last,      \* the HTTP response sent by the latest step (NoResponse if it sent none)
  purged,    \* history: ids for which DELETE /api/files/:id answered 200
  resp,      \* the most recent response of GET /api/files
  scan,      \* history: the pages 1..k a client has fetched in a row with one limit
  ui         \* the React state of the page: files, searchTerm, section

vars == <<files, seq, blobs, now, inflight, last, purged, resp, scan, ui>>

-----------------------------------------------------------------------------
(* Bounds *)

MaxId == 2          \* rows ever inserted
MaxClock == 1       \* milliseconds the clock may advance
MaxInflight == 2    \* requests suspended at the same time
MaxRows == 3        \* rows of the small tables List is run on
MaxViewRows == 2    \* rows of the tables the page is rendered on

(* Program constants *)

DefaultPage == 1
DefaultLimit == 20
MaxLimit == 100
MsPerSecond == 1000
fileSize == 100 * 1024 * 1024    \* limits: { fileSize: 100 * 1024 * 1024 }

-----------------------------------------------------------------------------
(* Inputs *)

Ids == 1..MaxId
Slots == 1..MaxInflight

\* req.file as multer hands it over; body stands for the bytes of the temp file.
\* Two files of the largest size multer lets through that differ only in their
\* bytes: the table has no column for them.
\* A MIME type is the sequence of its characters.
TextPlain == <<"t", "e", "x", "t", "/", "p", "l", "a", "i", "n">>

UploadFiles ==
  { [originalname |-> "a.txt", mimetype |-> TextPlain, size |-> fileSize, body |-> "x"],
    [originalname |-> "a.txt", mimetype |-> TextPlain, size |-> fileSize, body |-> "y"] }

NoFile == [originalname |-> "", mimetype |-> << >>, size |-> 0, body |-> ""]
NoKey == <<-1, "">>

\* what the bucket does with a request, and what the SDK call reports:
\*   ok   - done, promise resolves
\*   err  - not done, promise rejects
\*   lost - done on the bucket, but the promise rejects (timeout, dropped reply)
S3Outcomes == {"ok", "err", "lost"}

NoResponse == [op |-> "none", id |-> 0, status |-> 0]

Idle == [op |-> "idle", pc |-> "idle", id |-> 0, file |-> NoFile, key |-> NoKey, result |-> "none"]

-----------------------------------------------------------------------------
(* Helpers *)

Max(S) == CHOOSE m \in S : \A x \in S : x <= m

Without(f, k) == [x \in (DOMAIN f) \ {k} |-> f[x]]

\* `files/${Date.now()}-${originalname}`: Date.now() prints as digits only, so
\* the text up to the first "-" is the time and the rest is the name; the pair
\* carries exactly the information of the string.
S3Key(t, originalname) == <<t, originalname>>

\* created_at DATETIME DEFAULT CURRENT_TIMESTAMP: one-second resolution
CurrentTimestamp(t) == t \div MsPerSecond

\* id INTEGER PRIMARY KEY without AUTOINCREMENT: one more than the largest
\* rowid that is in the table now
NextRowid_reuse == IF DOMAIN files = {} THEN 1 ELSE Max(DOMAIN files) + 1

\* id INTEGER PRIMARY KEY AUTOINCREMENT: one more than the largest rowid that
\* has ever been in the table
NextRowid == seq + 1

\* s3_key TEXT NOT NULL UNIQUE
KeyTaken(k) == \E i \in DOMAIN files : files[i].s3_key = k

Respond(op, id, status) == [op |-> op, id |-> id, status |-> status]

getFileById(id) == id \in DOMAIN files

Uploading == {s \in Slots : inflight[s].op = "upload"}

\* a request that has to wait is parked in the first free slot
FreeSlot(s) == inflight[s] = Idle /\ \A t \in Slots : t < s => inflight[t] # Idle

\* useState([]), useState(''), useState('My Drive')
FirstRender == [files |-> << >>, searchTerm |-> << >>, section |-> "My Drive"]

-----------------------------------------------------------------------------
Init ==
  /\ files = << >>
  /\ seq = 0
  /\ blobs = << >>
  /\ now = 0
  /\ inflight = [s \in Slots |-> Idle]
  /\ last = NoResponse
  /\ purged = {}
  /\ resp = [status |-> 0]
  /\ scan = [limit |-> 0, pages |-> << >>]
  /\ ui = FirstRender

\* the wall clock advances
Tick ==
  /\ now < MaxClock
  /\ now' = now + 1
  /\ last' = NoResponse
  /\ UNCHANGED <<files, seq, blobs, inflight, purged, resp, scan, ui>>

-----------------------------------------------------------------------------
(* POST /api/files *)

\* the alternatives of /^(image|video|audio|application|text)\//
allowedMimes ==
  { <<"i", "m", "a", "g", "e">>, <<"v", "i", "d", "e", "o">>, <<"a", "u", "d", "i", "o">>,
    <<"a", "p", "p", "l", "i", "c", "a", "t", "i", "o", "n">>, <<"t", "e", "x", "t">> }

\* the expression without its ^ anchor: an alternative and "/" anywhere
fileFilter_unanchored(file) ==
  \E alt \in allowedMimes :
    \E i \in 0..(Len(file.mimetype) - Len(alt) - 1) :
       SubSeq(file.mimetype, i + 1, i + Len(alt) + 1) = alt \o <<"/">>

\* allowedMimes.test(file.mimetype): at the start of the string, one of the
\* alternatives followed by "/" (the match is case-sensitive)
fileFilter(file) ==
  \E alt \in allowedMimes :
    /\ Len(file.mimetype) >= Len(alt) + 1
    /\ SubSeq(file.mimetype, 1, Len(alt) + 1) = alt \o <<"/">>

\* a multipart request with no part named `file`
NoPart == [originalname |-> "", mimetype |-> << >>, size |-> -1, body |-> ""]

\* upload.single('file'): what multer passes on.  The filter sees the part's
\* header before any byte of the part is read; the size limit trips while the
\* bytes are read.
Multer(part) ==
  IF part = NoPart THEN "no file"
  ELSE IF ~fileFilter(part) THEN "Invalid file type"
  ELSE IF part.size > fileSize THEN "LIMIT_FILE_SIZE"
  ELSE "file"

\* the parts a request may carry besides the files of UploadFiles: no part,
\* a type the filter refuses (of either size), a type it lets through with a
\* file of one byte too many
OtherParts ==
  { NoPart } \cup
  { [originalname |-> "a.txt", mimetype |-> m, size |-> sz, body |-> "x"] :
      m \in { << >>, <<"t", "e", "x", "t">>, <<"T", "e", "x", "t", "/", "x">>,
              <<"f", "o", "n", "t", "/", "x">>, <<"x", "t", "e", "x", "t", "/", "x">> },
      sz \in { 10, fileSize + 1 } } \cup
  { [originalname |-> "a.txt", mimetype |-> m, size |-> fileSize + 1, body |-> "x"] :
      m \in { TextPlain,
              <<"i", "m", "a", "g", "e", "/", "x">>, <<"v", "i", "d", "e", "o", "/", "x">>,
              <<"a", "u", "d", "i", "o", "/", "x">>,
              <<"a", "p", "p", "l", "i", "c", "a", "t", "i", "o", "n", "/", "x">> } }

\* a request that does not get past multer and the first line of the
\* handler: `if (!req.file) return 400`, or the error middleware
UploadRejected(part) ==
  /\ Multer(part) # "file"
  /\ last' = CASE Multer(part) = "no file" -> Respond("upload", 0, 400)
               [] Multer(part) = "LIMIT_FILE_SIZE" -> Respond("upload", 0, 413)
               [] Multer(part) = "Invalid file type" -> Respond("upload", 0, 400)
  /\ UNCHANGED <<files, seq, blobs, now, inflight, purged, resp, scan, ui>>

\* the handler up to `await s3Client.send(uploadCommand)`
UploadStart(s, f) ==
  /\ Multer(f) = "file"
  /\ FreeSlot(s)
  /\ seq + Cardinality(Uploading) < MaxId
  /\ inflight' = [inflight EXCEPT ![s] =
        [op |-> "upload", pc |-> "sent", id |-> 0, file |-> f,
         key |-> S3Key(now, f.originalname), result |-> "none"]]
  /\ last' = NoResponse
  /\ UNCHANGED <<files, seq, blobs, now, purged, resp, scan, ui>>

\* readFileSync(tempPath) throws: the catch block answers 500 before any put
UploadReadFail(f) ==
  /\ Multer(f) = "file"
  /\ last' = Respond("upload", 0, 500)
  /\ UNCHANGED <<files, seq, blobs, now, inflight, purged, resp, scan, ui>>

\* the bucket serves PutObject (a put to an existing key replaces the object)
S3Put(s, outcome) ==
  /\ inflight[s].op = "upload" /\ inflight[s].pc = "sent"
  /\ blobs' = IF outcome \in {"ok", "lost"}
              THEN [k \in (DOMAIN blobs) \cup {inflight[s].key} |->
                      IF k = inflight[s].key THEN inflight[s].file.body ELSE blobs[k]]
              ELSE blobs
  /\ inflight' = [inflight EXCEPT ![s].pc = "replied",
                                  ![s].result = IF outcome = "ok" THEN "ok" ELSE "err"]
  /\ last' = NoResponse
  /\ UNCHANGED <<files, seq, now, purged, resp, scan, ui>>

\* insertFile.run runs whatever the put reported
InsertReached_anyway(r) == TRUE

\* insertFile.run is reached only when `await s3Client.send(...)` did not throw
InsertReached(r) == r.result = "ok"

\* the handler after the await: insertFile.run, unlinkSync and 201, or the
\* catch block.  insertFile.run throws on a duplicate s3_key or when the
\* database fails (dbok false); unlinkSync throws when the temp file is gone
\* (unlinked false), after the row has been inserted.
UploadDone(s, dbok, unlinked) ==
  /\ inflight[s].op = "upload" /\ inflight[s].pc = "replied"
  /\ LET r == inflight[s] IN
     IF InsertReached(r) /\ dbok /\ ~KeyTaken(r.key)
     THEN /\ files' = [i \in (DOMAIN files) \cup {NextRowid} |->
                         IF i = NextRowid
                         THEN [name |-> r.file.originalname, size |-> r.file.size,
                               content_type |-> r.file.mimetype, s3_key |-> r.key,
                               starred |-> 0, trashed |-> 0,
                               created_at |-> CurrentTimestamp(now)]
                         ELSE files[i]]
          /\ seq' = NextRowid
          /\ last' = IF unlinked THEN Respond("upload", NextRowid, 201)
                     ELSE Respond("upload", 0, 500)
     ELSE /\ UNCHANGED <<files, seq>>
          /\ last' = Respond("upload", 0, 500)
  /\ inflight' = [inflight EXCEPT ![s] = Idle]
  /\ UNCHANGED <<blobs, now, purged, resp, scan, ui>>

-----------------------------------------------------------------------------
(* DELETE /api/files/:id *)

\* the handler with a test that refuses rows that are not in the trash
PurgeStart_trashedOnly(s, id) ==
  /\ FreeSlot(s)
  /\ IF getFileById(id) /\ files[id].trashed = 1
     THEN /\ inflight' = [inflight EXCEPT ![s] =
                [op |-> "purge", pc |-> "sent", id |-> id, file |-> NoFile,
                 key |-> files[id].s3_key, result |-> "none"]]
          /\ last' = NoResponse
     ELSE /\ last' = Respond("purge", id, 404)
          /\ UNCHANGED inflight
  /\ UNCHANGED <<files, seq, blobs, now, purged, resp, scan, ui>>

\* the handler up to s3Client.send(deleteCommand): lookup, 404, or send
PurgeStart(s, id) ==
  /\ FreeSlot(s)
  /\ IF getFileById(id)
     THEN /\ inflight' = [inflight EXCEPT ![s] =
                [op |-> "purge", pc |-> "sent", id |-> id, file |-> NoFile,
                 key |-> files[id].s3_key, result |-> "none"]]
          /\ last' = NoResponse
     ELSE /\ last' = Respond("purge", id, 404)
          /\ UNCHANGED inflight
  /\ UNCHANGED <<files, seq, blobs, now, purged, resp, scan, ui>>

\* the bucket serves DeleteObject (deleting an absent key succeeds)
S3Delete(s, outcome) ==
  /\ inflight[s].op = "purge" /\ inflight[s].pc = "sent"
  /\ blobs' = IF outcome \in {"ok", "lost"} THEN Without(blobs, inflight[s].key) ELSE blobs
  /\ inflight' = [inflight EXCEPT ![s].pc = "replied",
                                  ![s].result = IF outcome = "ok" THEN "ok" ELSE "err"]
  /\ last' = NoResponse
  /\ UNCHANGED <<files, seq, now, purged, resp, scan, ui>>

\* deleteFile.run runs whatever the delete reported
DeleteReached_anyway(r) == TRUE

\* deleteFile.run is in the .then of s3Client.send(deleteCommand)
DeleteReached(r) == r.result = "ok"

\* .then: deleteFile.run and 200; .catch (also entered when deleteFile.run
\* throws): 500
PurgeDone(s, dbok) ==
  /\ inflight[s].op = "purge" /\ inflight[s].pc = "replied"
  /\ LET r == inflight[s] IN
     IF DeleteReached(r) /\ dbok
     THEN /\ files' = Without(files, r.id)
          /\ last' = Respond("purge", r.id, 200)
          /\ purged' = purged \cup {r.id}
     ELSE /\ UNCHANGED <<files, purged>>
          /\ last' = Respond("purge", r.id, 500)
  /\ inflight' = [inflight EXCEPT ![s] = Idle]
  /\ UNCHANGED <<seq, blobs, now, resp, scan, ui>>

-----------------------------------------------------------------------------
(* GET /api/files/:id/download *)

\* lookup, 404, or getSignedUrl(...) started
DownloadStart(s, id) ==
  /\ FreeSlot(s)
  /\ IF getFileById(id)
     THEN /\ inflight' = [inflight EXCEPT ![s] =
                [op |-> "download", pc |-> "sent", id |-> id, file |-> NoFile,
                 key |-> files[id].s3_key, result |-> "none"]]
          /\ last' = NoResponse
     ELSE /\ last' = Respond("download", id, 404)
          /\ UNCHANGED inflight
  /\ UNCHANGED <<files, seq, blobs, now, purged, resp, scan, ui>>

\* the signer settles: .then answers the URL, .catch answers 500.  The URL is
\* computed from the credentials alone; the bucket is not asked about the key.
DownloadDone(s, signed) ==
  /\ inflight[s].op = "download" /\ inflight[s].pc = "sent"
  /\ last' = Respond("download", inflight[s].id, IF signed THEN 200 ELSE 500)
  /\ inflight' = [inflight EXCEPT ![s] = Idle]
  /\ UNCHANGED <<files, seq, blobs, now, purged, resp, scan, ui>>

-----------------------------------------------------------------------------
(* POST /api/files/:id/star | unstar | trash | restore *)

\* UPDATE files SET starred = 1 - starred WHERE id = ?
updateFileStarred_toggle(v, id) == [files EXCEPT ![id].starred = 1 - @]

\* UPDATE files SET starred = ? WHERE id = ?
updateFileStarred(v, id) == [files EXCEPT ![id].starred = v]

\* UPDATE files SET trashed = ?, starred = 0 WHERE id = ?
updateFileTrashed_unstar(v, id) == [files EXCEPT ![id].trashed = v, ![id].starred = 0]

\* UPDATE files SET trashed = ? WHERE id = ?
updateFileTrashed(v, id) == [files EXCEPT ![id].trashed = v]

\* the star handler without its `if (!file) return 404`
Star_blind(id) ==
  /\ files' = IF getFileById(id) THEN updateFileStarred(1, id) ELSE files
  /\ last' = Respond("star", id, 200)
  /\ UNCHANGED <<seq, blobs, now, inflight, purged, resp, scan, ui>>

Star(id) ==
  /\ IF getFileById(id)
     THEN files' = updateFileStarred(1, id) /\ last' = Respond("star", id, 200)
     ELSE UNCHANGED files /\ last' = Respond("star", id, 404)
  /\ UNCHANGED <<seq, blobs, now, inflight, purged, resp, scan, ui>>

Unstar(id) ==
  /\ IF getFileById(id)
     THEN files' = updateFileStarred(0, id) /\ last' = Respond("unstar", id, 200)
     ELSE UNCHANGED files /\ last' = Respond("unstar", id, 404)
  /\ UNCHANGED <<seq, blobs, now, inflight, purged, resp, scan, ui>>

Trash(id) ==
  /\ IF getFileById(id)
     THEN files' = updateFileTrashed(1, id) /\ last' = Respond("trash", id, 200)
     ELSE UNCHANGED files /\ last' = Respond("trash", id, 404)
  /\ UNCHANGED <<seq, blobs, now, inflight, purged, resp, scan, ui>>

Restore(id) ==
  /\ IF getFileById(id)
     THEN files' = updateFileTrashed(0, id) /\ last' = Respond("restore", id, 200)
     ELSE UNCHANGED files /\ last' = Respond("restore", id, 404)
  /\ UNCHANGED <<seq, blobs, now, inflight, purged, resp, scan, ui>>

-----------------------------------------------------------------------------
(* GET /api/files *)

\* A query parameter is the sequence of its characters; Absent is a
\* parameter that is not in the URL (req.query.x is undefined).
Absent == <<"undefined">>
\* a JavaScript number: NaN, or the integer val
NaN == [nan |-> TRUE, val |-> 0]
Num(v) == [nan |-> FALSE, val |-> v]

Digits == <<"0", "1", "2", "3", "4", "5", "6", "7", "8", "9">>
IsDigit(c) == \E i \in 1..10 : Digits[i] = c
DigitVal(c) == (CHOOSE i \in 1..10 : Digits[i] = c) - 1

RECURSIVE SkipSpaces(_)
SkipSpaces(q) == IF q # << >> /\ Head(q) = " " THEN SkipSpaces(Tail(q)) ELSE q

\* the value of the longest run of digits at the front of q, read after acc
RECURSIVE ReadDigits(_, _)
ReadDigits(q, acc) ==
  IF q # << >> /\ IsDigit(Head(q))
  THEN ReadDigits(Tail(q), 10 * acc + DigitVal(Head(q)))
  ELSE acc

\* parseInt(string) with no radix: leading blanks, an optional sign, then the
\* longest run of decimal digits; NaN when there is no digit there.  (A "0x"
\* prefix would switch to base 16; no input below has one.)
parseInt(q) ==
  IF q = Absent THEN NaN
  ELSE LET t == SkipSpaces(q)
           neg == t # << >> /\ Head(t) = "-"
           u == IF t # << >> /\ Head(t) \in {"-", "+"} THEN Tail(t) ELSE t
       IN IF u = << >> \/ ~IsDigit(Head(u)) THEN NaN
          ELSE IF neg THEN Num(0 - ReadDigits(u, 0)) ELSE Num(ReadDigits(u, 0))

\* a || b for a number a and a non-zero literal b: NaN and 0 are falsy
OrElse(a, b) == IF a.nan \/ a.val = 0 THEN b ELSE a.val

Min(a, b) == IF a <= b THEN a ELSE b

\* Math.floor in the place of Math.ceil
CeilDiv_floor(a, b) == IF b > 0 THEN a \div b ELSE (0 - a) \div (0 - b)

\* Math.ceil(a / b) for b # 0
CeilDiv(a, b) == IF b > 0 THEN 0 - ((0 - a) \div b) ELSE 0 - (a \div (0 - b))

\* all the sequences that list each element of S once
RECURSIVE Perms(_)
Perms(S) == IF S = {} THEN { << >> }
            ELSE UNION { { <<x>> \o p : p \in Perms(S \ {x}) } : x \in S }

\* the orders, by created_at descending, of the rows created in seconds lo..hi
RECURSIVE OrdersBetween(_, _)
OrdersBetween(lo, hi) ==
  IF lo = hi THEN Perms({i \in DOMAIN files : files[i].created_at = lo})
  ELSE LET mid == (lo + hi) \div 2
       IN { p \o q : p \in OrdersBetween(mid + 1, hi), q \in OrdersBetween(lo, mid) }

\* ORDER BY created_at DESC: every order of the rows with created_at
\* descending.  The statement names no second sort key, so SQL leaves the
\* order of rows with equal created_at to the engine, query by query.
OrderByCreatedAtDesc ==
  IF DOMAIN files = {} THEN { << >> }
  ELSE LET secs == {files[i].created_at : i \in DOMAIN files}
       IN OrdersBetween(0 - Max({0 - t : t \in secs}), Max(secs))

\* LIMIT ? OFFSET ? with the first row after the offset left out
LimitOffset_skipsOne(ord, limit, offset) ==
  LET off == IF offset < 0 THEN 0 ELSE offset
      n == Len(ord)
      hi == IF limit < 0 THEN n ELSE Min(off + limit, n)
  IN SubSeq(ord, off + 2, hi)

\* LIMIT ? OFFSET ? as SQLite applies them to the ordered rows: a negative
\* LIMIT means no limit, a negative OFFSET means 0
LimitOffset(ord, limit, offset) ==
  LET off == IF offset < 0 THEN 0 ELSE offset
      n == Len(ord)
      hi == IF limit < 0 THEN n ELSE Min(off + limit, n)
  IN SubSeq(ord, off + 1, hi)

\* SELECT *: a row as it is serialised into the response
RowOut(i) ==
  [id |-> i, name |-> files[i].name, size |-> files[i].size,
   content_type |-> files[i].content_type, s3_key |-> files[i].s3_key,
   starred |-> files[i].starred, trashed |-> files[i].trashed,
   created_at |-> files[i].created_at]

\* SELECT COUNT(*) as count FROM files
countFiles == Cardinality(DOMAIN files)

\* the handler of GET /api/files?page=pageQ&limit=limitQ; ord is the order the
\* engine produced for this run of selectFiles
List(pageQ, limitQ, ord) ==
  LET page == OrElse(parseInt(pageQ), DefaultPage)
      limit == Min(OrElse(parseInt(limitQ), DefaultLimit), MaxLimit)
      offset == (page - 1) * limit
      ids == LimitOffset(ord, limit, offset)
      totalCount == countFiles
      totalPages == CeilDiv(totalCount, limit)
  IN /\ resp' = [status |-> 200,
                 query |-> [page |-> pageQ, limit |-> limitQ],
                 files |-> [k \in 1..Len(ids) |-> RowOut(ids[k])],
                 pagination |-> [currentPage |-> page, totalItems |-> totalCount,
                                 totalPages |-> totalPages, itemsPerPage |-> limit,
                                 hasNext |-> page < totalPages, hasPrev |-> page > 1]]
     /\ scan' = IF page = 1 THEN [limit |-> limit, pages |-> <<ids>>]
                ELSE IF limit = scan.limit /\ page = Len(scan.pages) + 1
                THEN [limit |-> limit, pages |-> Append(scan.pages, ids)]
                ELSE [limit |-> 0, pages |-> << >>]
     /\ UNCHANGED <<files, seq, blobs, now, inflight, last, purged, ui>>

PageQueries ==
  { Absent, <<"0">>, <<"-", "1">>, <<"1">>, <<" ", "2">>, <<"3">>, <<"9", "9">> }

LimitQueries ==
  { Absent, <<"a", "b", "c">>, <<"0">>, <<"-", "1">>, <<"1">>, <<"2">>, <<"1", "0", "1">> }

\* a row as Upload leaves it when it starts in millisecond ms of second sec
StoredRow(ms, sec, trashed) ==
  [name |-> "a.txt", size |-> 10, content_type |-> "text/plain",
   s3_key |-> S3Key(sec * MsPerSecond + ms, "a.txt"),
   starred |-> 0, trashed |-> trashed, created_at |-> sec]

\* Tables of n rows, uploaded one after the other, a row per second, except
\* that with tie the first two were uploaded in the same second; the first t
\* rows have been trashed since.
SmallTables ==
  { [i \in 1..n |-> StoredRow(i, IF tie /\ i = 1 THEN 2 ELSE i, IF i <= t THEN 1 ELSE 0)] :
      n \in 0..MaxRows, tie \in BOOLEAN, t \in 0..1 }

\* one table larger than the largest page, a row per second
LargeTable == [i \in 1..(MaxLimit + 1) |-> StoredRow(i, i, 0)]

InitList ==
  /\ files \in SmallTables \cup {LargeTable}
  /\ seq = Cardinality(DOMAIN files)
  /\ blobs = [k \in {files[i].s3_key : i \in DOMAIN files} |-> "x"]
  /\ now = (MaxLimit + 2) * MsPerSecond
  /\ inflight = [s \in Slots |-> Idle]
  /\ last = NoResponse
  /\ purged = {}
  /\ resp = [status |-> 0]
  /\ scan = [limit |-> 0, pages |-> << >>]
  /\ ui = FirstRender

NextList ==
  \E ord \in OrderByCreatedAtDesc, pageQ \in PageQueries, limitQ \in LimitQueries :
    List(pageQ, limitQ, ord)

SpecList == InitList /\ [][NextList]_vars

-----------------------------------------------------------------------------
(* The page (the React component App): the fetched files, the search box and
   the sidebar.  Strings that are searched are sequences of characters. *)

UpperCase == <<"A", "B", "C">>
LowerCase == <<"a", "b", "c">>

\* String.prototype.toLowerCase, on the letters used below
toLowerCase(str) ==
  [k \in 1..Len(str) |->
     IF \E i \in 1..Len(UpperCase) : UpperCase[i] = str[k]
     THEN LowerCase[CHOOSE i \in 1..Len(UpperCase) : UpperCase[i] = str[k]]
     ELSE str[k]]

\* String.prototype.includes: sub occurs in str at some position
includes(str, sub) ==
  \E i \in 0..(Len(str) - Len(sub)) : SubSeq(str, i + 1, i + Len(sub)) = sub

\* the truth value JavaScript gives a number: 0 is falsy (the flags arrive as
\* the integers of the table, not as booleans)
Truthy(v) == v # 0

\* filteredFiles with no trashed test in 'Starred'
filteredFiles_starredTrash(fetched, searchTerm, section) ==
  LET matchesSearch(file) == includes(toLowerCase(file.name), toLowerCase(searchTerm))
      Keep(file) ==
        CASE section = "My Drive" -> ~Truthy(file.trashed) /\ matchesSearch(file)
          [] section = "Starred" -> Truthy(file.starred) /\ matchesSearch(file)
          [] section = "Trash" -> Truthy(file.trashed) /\ matchesSearch(file)
          [] section = "Recent" -> ~Truthy(file.trashed) /\ matchesSearch(file)
          [] OTHER -> FALSE
  IN SelectSeq(fetched, Keep)

\* files.filter(file => ...): the rows the page shows in a section
filteredFiles(fetched, searchTerm, section) ==
  LET matchesSearch(file) == includes(toLowerCase(file.name), toLowerCase(searchTerm))
      Keep(file) ==
        CASE section = "My Drive" -> ~Truthy(file.trashed) /\ matchesSearch(file)
          [] section = "Starred" ->
               ~Truthy(file.trashed) /\ Truthy(file.starred) /\ matchesSearch(file)
          [] section = "Trash" -> Truthy(file.trashed) /\ matchesSearch(file)
          [] section = "Recent" -> ~Truthy(file.trashed) /\ matchesSearch(file)
          [] OTHER -> FALSE
  IN SelectSeq(fetched, Keep)

\* the items of the sidebar
Sections == {"My Drive", "Recent", "Starred", "Trash"}

\* setFiles(response.data.files) once GET /api/files has answered
setFiles ==
  /\ resp.status = 200
  /\ ui' = [ui EXCEPT !.files = resp.files]
  /\ UNCHANGED <<files, seq, blobs, now, inflight, last, purged, resp, scan>>

\* typing in the search box
setSearchTerm(value) ==
  /\ ui' = [ui EXCEPT !.searchTerm = value]
  /\ UNCHANGED <<files, seq, blobs, now, inflight, last, purged, resp, scan>>

\* a click in the sidebar
setSection(txt) ==
  /\ ui' = [ui EXCEPT !.section = txt]
  /\ UNCHANGED <<files, seq, blobs, now, inflight, last, purged, resp, scan>>

FileNames == { <<"A", "b">>, <<"b", "c">> }
SearchTerms == { << >>, <<"a">>, <<"C">>, <<"c", "a">> }

\* the query fetchFiles sends: `/files?page=${page}&limit=100`, page 1
FetchPage == <<"1">>
FetchLimit == <<"1", "0", "0">>

\* tables of up to MaxViewRows rows, a row per second, with every choice of
\* name and flags
ViewTables ==
  UNION { [1..n -> { [name |-> nm, size |-> 10, content_type |-> "text/plain",
                      s3_key |-> S3Key(0, nm), starred |-> st, trashed |-> tr,
                      created_at |-> 0] :
                     nm \in FileNames, st \in 0..1, tr \in 0..1 }] : n \in 0..MaxViewRows }

\* row i was uploaded in second i, millisecond i
ViewTable(t) ==
  [i \in DOMAIN t |-> [t[i] EXCEPT !.s3_key = S3Key(i * MsPerSecond + i, t[i].name),
                                   !.created_at = i]]

InitView ==
  /\ files \in { ViewTable(t) : t \in ViewTables }
  /\ seq = Cardinality(DOMAIN files)
  /\ blobs = [k \in {files[i].s3_key : i \in DOMAIN files} |-> "x"]
  /\ now = (MaxViewRows + 2) * MsPerSecond
  /\ inflight = [s \in Slots |-> Idle]
  /\ last = NoResponse
  /\ purged = {}
  /\ resp = [status |-> 0]
  /\ scan = [limit |-> 0, pages |-> << >>]
  /\ ui = FirstRender

NextView ==
  \/ \E ord \in OrderByCreatedAtDesc : List(FetchPage, FetchLimit, ord)
  \/ setFiles
  \/ \E value \in SearchTerms : setSearchTerm(value)
  \/ \E txt \in Sections : setSection(txt)

SpecView == InitView /\ [][NextView]_vars

\* row number k of the fetched files is on the screen in section txt
Shown(k, txt) ==
  \E j \in 1..Len(filteredFiles(ui.files, ui.searchTerm, txt)) :
     filteredFiles(ui.files, ui.searchTerm, txt)[j].id = ui.files[k].id

\* C13 as stated: whatever is in the search box, every fetched row with
\* trashed set is shown in Trash and in none of My Drive, Recent and Starred,
\* a row with trashed clear is not shown in Trash, and no row is shown in both
\* My Drive and Trash.
\* (Violated: the search box filters every section, Trash included, so a
\* trashed row whose name does not contain the search term is shown nowhere.)
C13_TrashedShownInTrash ==
  \A k \in 1..Len(ui.files) :
    /\ Truthy(ui.files[k].trashed) =>
         (Shown(k, "Trash") /\ \A txt \in Sections \ {"Trash"} : ~Shown(k, txt))
    /\ ~Truthy(ui.files[k].trashed) => ~Shown(k, "Trash")
    /\ ~(Shown(k, "My Drive") /\ Shown(k, "Trash"))

\* C13 amended: a fetched row with trashed set is shown in none of My Drive,
\* Recent and Starred, and is shown in Trash exactly when its name contains
\* the search term (letter case ignored); a row with trashed clear is not
\* shown in Trash; no row is shown in both My Drive and Trash.
C13_TrashVisibility ==
  \A k \in 1..Len(ui.files) :
    /\ Truthy(ui.files[k].trashed) =>
         /\ Shown(k, "Trash") =
              includes(toLowerCase(ui.files[k].name), toLowerCase(ui.searchTerm))
         /\ \A txt \in Sections \ {"Trash"} : ~Shown(k, txt)
    /\ ~Truthy(ui.files[k].trashed) => ~Shown(k, "Trash")
    /\ ~(Shown(k, "My Drive") /\ Shown(k, "Trash"))

\* the page shows Trash with a search term in capitals; both fetched rows
\* are trashed and starred, one is shown and the other one is not
C13_Witness ==
  /\ ui.section = "Trash" /\ ui.searchTerm = <<"C">>
  /\ Len(ui.files) = 2
  /\ \A k \in 1..2 : Truthy(ui.files[k].trashed) /\ Truthy(ui.files[k].starred)
  /\ \E k \in 1..2 : Shown(k, "Trash")
  /\ \E k \in 1..2 : ~Shown(k, "Trash")

-----------------------------------------------------------------------------
(* Properties of GET /api/files, checked under SpecList *)

RECURSIVE Concat(_)
Concat(pp) == IF pp = << >> THEN << >> ELSE Head(pp) \o Concat(Tail(pp))

\* t is the least integer that is not below n / l
IsCeil(t, n, l) ==
  IF l > 0 THEN (t - 1) * l < n /\ n <= t * l
  ELSE (t - 1) * l > n /\ n >= t * l

\* C6: whatever the limit parameter is, List uses 20 when the parameter is
\* absent, not a number or zero, never uses a limit above 100, and never
\* answers with more than 100 records.
\* (Violated: a negative limit passes Math.min unchanged and SQLite reads a
\* negative LIMIT as "no limit", so the whole table is returned.)
C6_LimitDefaultAndCap ==
  resp.status = 200 =>
    /\ (parseInt(resp.query.limit).nan \/ parseInt(resp.query.limit).val = 0)
          => resp.pagination.itemsPerPage = DefaultLimit
    /\ resp.pagination.itemsPerPage <= MaxLimit
    /\ Len(resp.files) <= MaxLimit

\* C7: when a client has fetched pages 1..ceil(N/L) of an unmodified table of
\* N records with limit L, the pages put together hold every record exactly
\* once, in descending created_at order.
\* (Violated: rows of the same second may come in a different order in each
\* query, so a record can be on two pages and another on none.)
C7_PagesConcatenate ==
  (scan.limit >= 1 /\ countFiles >= 1
     /\ IsCeil(Len(scan.pages), countFiles, scan.limit)) =>
    LET all == Concat(scan.pages) IN
      /\ Len(all) = countFiles
      /\ {all[k] : k \in 1..Len(all)} = DOMAIN files
      /\ \A j, k \in 1..Len(all) : j < k => files[all[j]].created_at >= files[all[k]].created_at

\* C8: totalItems is the number of rows (trashed ones included), totalPages is
\* ceil(totalItems / limit), hasNext is page < totalPages and hasPrev is
\* page > 1.
C8_Pagination ==
  resp.status = 200 =>
    LET pg == resp.pagination IN
      /\ pg.totalItems = Cardinality(DOMAIN files)
      /\ IsCeil(pg.totalPages, pg.totalItems, pg.itemsPerPage)
      /\ pg.hasNext = (pg.currentPage < pg.totalPages)
      /\ pg.hasPrev = (pg.currentPage > 1)

\* a middle page of a table that has a trashed row
C8_Witness ==
  /\ resp.status = 200
  /\ resp.pagination.hasNext /\ resp.pagination.hasPrev
  /\ resp.pagination.totalPages = 3
  /\ \E i \in DOMAIN files : files[i].trashed = 1

\* C9: a request for a page number outside 1..totalPages (too large, zero or
\* negative) is answered 200 with no records.
\* (Violated: page 0 is replaced by page 1, and a negative page gives a
\* negative OFFSET, which SQLite reads as 0; both answer the first page.)
C9_OutOfRangePageIsEmpty ==
  (resp.status # 0 /\ ~parseInt(resp.query.page).nan /\ resp.pagination.itemsPerPage >= 1) =>
    LET p == parseInt(resp.query.page).val IN
      (p < 1 \/ p > resp.pagination.totalPages) => (resp.status = 200 /\ resp.files = << >>)

-----------------------------------------------------------------------------
(* Properties of the file handlers, checked under Spec *)

Quiet == \A s \in Slots : inflight[s] = Idle

\* C1: whenever no request is in progress, every row of the files table has
\* a blob in the bucket under its s3_key.
\* (Violated: the blob is deleted before the row, and the row stays when
\* deleteFile.run throws or when the bucket deleted the object but the call
\* reported an error.)
C1_RowsHaveBlobs ==
  Quiet => \A i \in DOMAIN files : files[i].s3_key \in DOMAIN blobs

\* C2: a row is inserted only by an Upload whose put has reported success,
\* under the key of that put; an Upload whose put has failed answers 500 and
\* leaves the files table as it is.
C2_UploadPutFailure ==
  [][ /\ \A s \in Slots :
           (inflight[s].op = "upload" /\ inflight[s].result = "err" /\ inflight'[s] = Idle)
             => (files' = files /\ last' = Respond("upload", 0, 500))
      /\ \A i \in (DOMAIN files') \ (DOMAIN files) :
           \E s \in Slots : /\ inflight[s].op = "upload" /\ inflight[s].result = "ok"
                            /\ inflight[s].key = files'[i].s3_key
                            /\ inflight'[s] = Idle
    ]_vars

\* the put of an Upload has failed while the table holds a row
C2_Witness ==
  /\ \E s \in Slots : inflight[s].op = "upload" /\ inflight[s].result = "err"
  /\ DOMAIN files # {}

\* C3: a row is deleted only by a PurgeForever of its id whose blob deletion
\* has reported success; a PurgeForever whose blob deletion has failed answers
\* 500 and leaves the files table (the row and all its fields) as it is.
C3_PurgeDeleteFailure ==
  [][ /\ \A s \in Slots :
           (inflight[s].op = "purge" /\ inflight[s].result = "err" /\ inflight'[s] = Idle)
             => (files' = files /\ last' = Respond("purge", inflight[s].id, 500))
      /\ \A i \in (DOMAIN files) \ (DOMAIN files') :
           \E s \in Slots : /\ inflight[s].op = "purge" /\ inflight[s].result = "ok"
                            /\ inflight[s].id = i
                            /\ inflight'[s] = Idle
      /\ \A i \in (DOMAIN files) \cap (DOMAIN files') :
           files'[i].s3_key = files[i].s3_key
    ]_vars

\* a PurgeForever has answered 500 and its row, starred and trashed, and the
\* blob of the row are still there
C3_Witness ==
  /\ last.op = "purge" /\ last.status = 500
  /\ last.id \in DOMAIN files
  /\ files[last.id].starred = 1 /\ files[last.id].trashed = 1
  /\ files[last.id].s3_key \in DOMAIN blobs

\* C4: once PurgeForever(id) has answered 200, no row has that id, and every
\* download, star, unstar, trash, restore and purge request that arrives for
\* it is answered 404.
C4_PurgeIsTerminal ==
  [][ \A id \in purged :
        /\ id \notin DOMAIN files'
        /\ Star(id) => last' = Respond("star", id, 404)
        /\ Unstar(id) => last' = Respond("unstar", id, 404)
        /\ Trash(id) => last' = Respond("trash", id, 404)
        /\ Restore(id) => last' = Respond("restore", id, 404)
        /\ \A s \in Slots : PurgeStart(s, id) => last' = Respond("purge", id, 404)
        /\ \A s \in Slots : DownloadStart(s, id) => last' = Respond("download", id, 404)
    ]_vars

\* a download of a purged id has been answered 404 after a later Upload
C4_Witness ==
  /\ last.op = "download" /\ last.status = 404 /\ last.id \in purged
  /\ \E i \in DOMAIN files : \E j \in purged : i > j

\* C5: the key an Upload is about to write is the key of no record and of no
\* blob in the bucket, and no two records have the same key.
\* (Violated: the key is Date.now() and the name, so two uploads of one name
\* in one millisecond get the same key.)
C5_FreshStorageKey ==
  /\ \A s \in Slots : (inflight[s].op = "upload" /\ inflight[s].pc = "sent")
        => (inflight[s].key \notin DOMAIN blobs /\ ~KeyTaken(inflight[s].key))
  /\ \A i, j \in DOMAIN files : i # j => files[i].s3_key # files[j].s3_key

\* C10: a star, unstar, trash or restore of an id that directly follows a
\* successful call of the same operation on that id is answered 200 again
\* and changes neither the table nor the bucket.
C10_FlagsIdempotent ==
  [][ \A id \in Ids :
        /\ (last = Respond("star", id, 200) /\ Star(id))
              => (files' = files /\ blobs' = blobs /\ last' = Respond("star", id, 200))
        /\ (last = Respond("unstar", id, 200) /\ Unstar(id))
              => (files' = files /\ blobs' = blobs /\ last' = Respond("unstar", id, 200))
        /\ (last = Respond("trash", id, 200) /\ Trash(id))
              => (files' = files /\ blobs' = blobs /\ last' = Respond("trash", id, 200))
        /\ (last = Respond("restore", id, 200) /\ Restore(id))
              => (files' = files /\ blobs' = blobs /\ last' = Respond("restore", id, 200))
    ]_vars

\* a star has been answered 200 on a record that is starred and trashed
C10_Witness ==
  /\ last.op = "star" /\ last.status = 200
  /\ files[last.id].starred = 1 /\ files[last.id].trashed = 1

\* C11: a download, star, unstar, trash, restore or purge request for an id
\* that has no row is answered 404, parks no call to the bucket (or to the
\* signer), and leaves the files table and the bucket as they are.
C11_AbsentIdIsNotFound ==
  [][ \A id \in Ids \ DOMAIN files :
        LET untouched == files' = files /\ blobs' = blobs /\ inflight' = inflight IN
        /\ Star(id) => (last' = Respond("star", id, 404) /\ untouched)
        /\ Unstar(id) => (last' = Respond("unstar", id, 404) /\ untouched)
        /\ Trash(id) => (last' = Respond("trash", id, 404) /\ untouched)
        /\ Restore(id) => (last' = Respond("restore", id, 404) /\ untouched)
        /\ \A s \in Slots :
             PurgeStart(s, id) => (last' = Respond("purge", id, 404) /\ untouched)
        /\ \A s \in Slots :
             DownloadStart(s, id) => (last' = Respond("download", id, 404) /\ untouched)
    ]_vars

\* a star of an id that was never assigned has been answered 404 while
\* another row and its blob exist
C11_Witness ==
  /\ last.op = "star" /\ last.status = 404
  /\ last.id > seq
  /\ \E i \in DOMAIN files : files[i].s3_key \in DOMAIN blobs

\* C12: star and unstar set the starred flag of the addressed row, trash and
\* restore set its trashed flag, and nothing else changes: not the bucket,
\* not another field of that row (name, size, content_type, s3_key,
\* created_at, the other flag; the id is the key of the row), not another row.
C12_FlagFlipsOnly ==
  [][ \A id \in DOMAIN files :
        LET others == /\ blobs' = blobs
                      /\ DOMAIN files' = DOMAIN files
                      /\ \A i \in DOMAIN files : i # id => files'[i] = files[i]
            starredTo(v) == files'[id] = [files[id] EXCEPT !.starred = v]
            trashedTo(v) == files'[id] = [files[id] EXCEPT !.trashed = v]
        IN /\ Star(id) => (others /\ starredTo(1))
           /\ Unstar(id) => (others /\ starredTo(0))
           /\ Trash(id) => (others /\ trashedTo(1))
           /\ Restore(id) => (others /\ trashedTo(0))
    ]_vars

\* a starred row has been trashed while a second row exists
C12_Witness ==
  /\ last.op = "trash" /\ last.status = 200
  /\ files[last.id].starred = 1 /\ files[last.id].trashed = 1
  /\ Cardinality(DOMAIN files) = 2

\* the List requests a client sends between its other requests
DriveQueries ==
  { [page |-> <<"1">>, limit |-> <<"1">>],
    [page |-> <<" ", "2">>, limit |-> <<"1">>],
    [page |-> <<"1">>, limit |-> Absent] }

\* the response of List agrees with the table: it is a page of one of the
\* orders of the table; it holds every row, with its name, size and content
\* type, when it is page 1 and the table has no more rows than the limit; and
\* every row is on one of the pages 1..totalPages of every order
ListShowsRows ==
  \A id \in DOMAIN files :
    LET pg == resp.pagination
        Has(rows) == \E k \in 1..Len(rows) :
                       /\ rows[k].id = id
                       /\ rows[k].name = files[id].name
                       /\ rows[k].size = files[id].size
                       /\ rows[k].content_type = files[id].content_type
        Page(p, ord) ==
          LET ids == LimitOffset(ord, pg.itemsPerPage, (p - 1) * pg.itemsPerPage)
          IN [k \in 1..Len(ids) |-> RowOut(ids[k])]
    IN /\ (pg.currentPage = 1 /\ countFiles <= pg.itemsPerPage) => Has(resp.files)
       /\ \A ord \in OrderByCreatedAtDesc : \E p \in 1..pg.totalPages : Has(Page(p, ord))
       /\ \E ord \in OrderByCreatedAtDesc : resp.files = Page(pg.currentPage, ord)

\* C14: the row of an Upload answered 201 carries the uploaded name, size and
\* content type under the returned id; a row keeps these three fields and
\* stays in the table through every request, star, unstar, trash and restore
\* included, up to the step that answers 200 to a purge of its id; and a List
\* request finds every row of the table: on page 1 when the table has no more
\* rows than the limit, and otherwise on one of the pages 1..totalPages of
\* the order the query produces.
C14_UploadedRowIsListed ==
  [][ /\ \A s \in Slots :
           (inflight[s].op = "upload" /\ inflight'[s] = Idle /\ last'.status = 201)
             => /\ last'.id \in DOMAIN files'
                /\ files'[last'.id].name = inflight[s].file.originalname
                /\ files'[last'.id].size = inflight[s].file.size
                /\ files'[last'.id].content_type = inflight[s].file.mimetype
      /\ \A id \in DOMAIN files :
           \/ last' = Respond("purge", id, 200)
           \/ /\ id \in DOMAIN files'
              /\ files'[id].name = files[id].name
              /\ files'[id].size = files[id].size
              /\ files'[id].content_type = files[id].content_type
      /\ (resp' # resp) => ListShowsRows'
    ]_vars

\* List has answered page 2 of 2 with a row that is starred and trashed
C14_Witness ==
  /\ resp.status = 200
  /\ resp.pagination.currentPage = 2 /\ resp.pagination.totalPages = 2
  /\ Len(resp.files) = 1
  /\ resp.files[1].starred = 1 /\ resp.files[1].trashed = 1

\* C15: an upload request with no file is answered 400, one whose MIME type
\* does not start with image/, video/, audio/, application/ or text/ is
\* answered 400, and one whose type is accepted and whose file is larger than
\* 100 MB is answered 413, each without a put to the bucket and without a
\* change of the table or the bucket; a request whose type is accepted and
\* whose file is no larger than 100 MB is not rejected, and no other request
\* gets as far as the put.
C15_UploadValidation ==
  [][ \A part \in UploadFiles \cup OtherParts :
        LET StartsWith(str, pre) == Len(str) >= Len(pre) /\ SubSeq(str, 1, Len(pre)) = pre
            accepted ==
              \E pre \in { <<"i", "m", "a", "g", "e", "/">>, <<"v", "i", "d", "e", "o", "/">>,
                           <<"a", "u", "d", "i", "o", "/">>, <<"t", "e", "x", "t", "/">>,
                           <<"a", "p", "p", "l", "i", "c", "a", "t", "i", "o", "n", "/">> } :
                 StartsWith(part.mimetype, pre)
            cap == 104857600
            valid == part # NoPart /\ accepted /\ part.size <= cap
        IN /\ (last'.status \in {400, 413} /\ UploadRejected(part)) =>
                /\ files' = files /\ blobs' = blobs /\ inflight' = inflight
                /\ ~valid
                /\ part = NoPart => last'.status = 400
                /\ (part # NoPart /\ ~accepted) => last'.status = 400
                /\ (part # NoPart /\ accepted /\ part.size > cap) => last'.status = 413
           /\ \A s \in Slots :
                (inflight[s] = Idle /\ inflight'[s].op = "upload" /\ UploadStart(s, part))
                  => valid
    ]_vars

\* an upload has been answered 413 while the table has a row and the bucket
\* has its blob
C15_Witness ==
  /\ last = Respond("upload", 0, 413)
  /\ \E i \in DOMAIN files : files[i].s3_key \in DOMAIN blobs

\* C16: when the put of an Upload has succeeded and its insert fails (the
\* database fails, or the key is taken), the request is answered 500, no row
\* is created, no call to the bucket is issued, and the blob that was written
\* stays in the bucket as an orphan: under a key that no row has.
\* (Violated: when the insert fails because a row already has the key, see
\* C5, the blob that was written is the blob of that row, and a purge of that
\* row that is under way deletes it.)
C16_InsertFailureLeavesOrphan ==
  [][ \A s \in Slots :
        (/\ inflight[s].op = "upload" /\ inflight[s].result = "ok"
         /\ \E unlinked \in BOOLEAN :
              \/ UploadDone(s, FALSE, unlinked)
              \/ KeyTaken(inflight[s].key) /\ UploadDone(s, TRUE, unlinked))
          => /\ last' = Respond("upload", 0, 500)
             /\ files' = files
             /\ blobs' = blobs
             /\ \A t \in Slots \ {s} : inflight'[t] = inflight[t]
             /\ inflight[s].key \in DOMAIN blobs'
             /\ \A i \in DOMAIN files' : files'[i].s3_key # inflight[s].key
    ]_vars

\* where a record is in its life: not created yet, Active, Trashed, or Purged
RecordState(id) ==
  IF id \in DOMAIN files THEN (IF files[id].trashed = 1 THEN "Trashed" ELSE "Active")
  ELSE IF id <= seq THEN "Purged" ELSE "None"

\* C17: a record is created Active; it goes from Active to Trashed by a trash
\* and from Trashed to Active by a restore, and by nothing else; a purge
\* request for it is taken on (sent to the bucket) in both states; it becomes
\* Purged by a purge answered 200 and by nothing else; and once Purged it
\* stays Purged: no later Upload is given its id.
C17_RecordLifecycle ==
  [][ \A id \in Ids :
        LET from == RecordState(id)
            to == RecordState(id)'
        IN /\ from = "None" => to \in {"None", "Active"}
           /\ from = "Purged" => to = "Purged"
           /\ (from = "Active" /\ to = "Trashed") => last' = Respond("trash", id, 200)
           /\ (from = "Trashed" /\ to = "Active") => last' = Respond("restore", id, 200)
           /\ (from \in {"Active", "Trashed"} /\ to \notin {"Active", "Trashed"})
                => (to = "Purged" /\ last' = Respond("purge", id, 200))
           /\ (from = "Active" /\ Trash(id)) => to = "Trashed"
           /\ (from = "Trashed" /\ Restore(id)) => to = "Active"
           /\ \A s \in Slots :
                (from \in {"Active", "Trashed"} /\ PurgeStart(s, id))
                  => (inflight'[s].op = "purge" /\ inflight'[s].id = id /\ last' = NoResponse)
    ]_vars

\* record 1 is Purged, and record 2, created after that, has been trashed,
\* restored and trashed again and is being purged from the trash
C17_Witness ==
  /\ RecordState(1) = "Purged" /\ 1 \in purged
  /\ RecordState(2) = "Trashed"
  /\ \E s \in Slots : inflight[s].op = "purge" /\ inflight[s].id = 2

\* C18: while a purge of a record is under way and the blob of the record is
\* no longer in the bucket, no download of that record is answered with a
\* signed URL and no star, unstar, trash or restore of it is answered 200.
\* (Violated: the row is deleted only in the .then of the bucket's delete;
\* until then the lookup of every other handler still finds it.)
C18_NoSuccessAfterBlobDeleted ==
  [][ \A id \in DOMAIN files :
        (/\ \E s \in Slots : inflight[s].op = "purge" /\ inflight[s].id = id
         /\ files[id].s3_key \notin DOMAIN blobs)
          => last' \notin { Respond(op, id, 200) :
                              op \in {"download", "star", "unstar", "trash", "restore"} }
    ]_vars

\* C19: a purge of an id is answered 200 at most once: no purge request is
\* answered 200 for an id for which an earlier purge request was answered
\* 200.
\* (Violated: two requests both find the row before either deletes it; the
\* bucket reports success for deleting a key that is gone and deleteFile.run
\* deletes no row without throwing, so both answer 200.)
C19_PurgedAtMostOnce ==
  [][ \A id \in purged : last' # Respond("purge", id, 200) ]_vars

\* C20: the put of an Upload leaves the blob of every existing row as it is,
\* and when an Upload inserts its row the blob under the key of the row holds
\* the bytes of that Upload; so the blob of a row is always what the request
\* that created the row uploaded.
\* (Violated: two uploads of one name in one millisecond write the same key,
\* see C5; the later put replaces the blob of the row of the earlier one, or
\* the blob the earlier one is about to refer to.)
C20_UploadKeepsOtherBlobs ==
  [][ \A s \in Slots :
        /\ (inflight[s].op = "upload" /\ inflight[s].pc = "sent" /\ inflight'[s].pc = "replied")
             => \A i \in DOMAIN files :
                  files[i].s3_key \in DOMAIN blobs
                    => (/\ files[i].s3_key \in DOMAIN blobs'
                        /\ blobs'[files[i].s3_key] = blobs[files[i].s3_key])
        /\ (inflight[s].op = "upload" /\ inflight[s].pc = "replied" /\ inflight'[s] = Idle)
             => \A i \in (DOMAIN files') \ (DOMAIN files) :
                  files'[i].s3_key \in DOMAIN blobs'
                    => blobs'[files'[i].s3_key] = inflight[s].file.body
    ]_vars

-----------------------------------------------------------------------------
Next ==
  \/ Tick
  \/ \E s \in Slots, f \in UploadFiles : UploadStart(s, f)
  \/ \E f \in UploadFiles : UploadReadFail(f)
  \/ \E s \in Slots, o \in S3Outcomes : S3Put(s, o)
  \/ \E s \in Slots, dbok \in BOOLEAN, unlinked \in BOOLEAN : UploadDone(s, dbok, unlinked)
  \/ \E s \in Slots, id \in Ids : PurgeStart(s, id)
  \/ \E s \in Slots, o \in S3Outcomes : S3Delete(s, o)
  \/ \E s \in Slots, dbok \in BOOLEAN : PurgeDone(s, dbok)
  \/ \E s \in Slots, id \in Ids : DownloadStart(s, id)
  \/ \E s \in Slots, signed \in BOOLEAN : DownloadDone(s, signed)
  \/ \E id \in Ids : Star(id)
  \/ \E id \in Ids : Unstar(id)
  \/ \E id \in Ids : Trash(id)
  \/ \E id \in Ids : Restore(id)

Spec == Init /\ [][Next]_vars

-----------------------------------------------------------------------------
(* One client at a time: uploads, flag changes and purges, each followed to
   its answer before the next request starts, and then one List request.
   List changes neither the table nor the bucket, so what a List request
   answers at some point of a run is what it answers as the last request of
   the run cut there. *)

NextDrive ==
  /\ resp.status = 0
  /\ \/ Tick
     \/ \E f \in UploadFiles : UploadStart(1, f)
     \/ \E o \in S3Outcomes : S3Put(1, o)
     \/ \E dbok \in BOOLEAN, unlinked \in BOOLEAN : UploadDone(1, dbok, unlinked)
     \/ \E id \in Ids : PurgeStart(1, id)
     \/ \E o \in S3Outcomes : S3Delete(1, o)
     \/ \E dbok \in BOOLEAN : PurgeDone(1, dbok)
     \/ \E id \in Ids : Star(id)
     \/ \E id \in Ids : Unstar(id)
     \/ \E id \in Ids : Trash(id)
     \/ \E id \in Ids : Restore(id)
     \/ \E ord \in OrderByCreatedAtDesc, q \in DriveQueries : List(q.page, q.limit, ord)

SpecDrive == Init /\ [][NextDrive]_vars

-----------------------------------------------------------------------------
(* Upload requests of every kind, valid or not, one request at a time, with
   purges in between. *)

NextUpload ==
  \/ Tick
  \/ \E part \in UploadFiles \cup OtherParts : UploadRejected(part)
  \/ \E f \in UploadFiles \cup OtherParts : UploadStart(1, f)
  \/ \E f \in UploadFiles \cup OtherParts : UploadReadFail(f)
  \/ \E o \in S3Outcomes : S3Put(1, o)
  \/ \E dbok \in BOOLEAN, unlinked \in BOOLEAN : UploadDone(1, dbok, unlinked)
  \/ \E id \in Ids : PurgeStart(1, id)
  \/ \E o \in S3Outcomes : S3Delete(1, o)
  \/ \E dbok \in BOOLEAN : PurgeDone(1, dbok)

SpecUpload == Init /\ [][NextUpload]_vars

====
